---- MODULE Spec2Model ----
(***************************************************************************)
(* Remote job lifecycle of autotrain: the provisioning layer               *)
(* (autotrain/spacerunner.py: _llm_munge_data, SpaceRunner,                *)
(* EndpointsRunner) and the in-unit generic job runner                     *)
(* (autotrain/trainers/generic/utils.py).                                  *)
(*                                                                         *)
(* Python strings are sequences of tokens; "/", "-" and "_" are tokens of  *)
(* their own, so that f-strings are concatenations and str.split is a real *)
(* split.                                                                  *)
(***************************************************************************)
EXTENDS Integers, Sequences, FiniteSets, TLC

VARIABLES
    \* ---- provisioning (spacerunner.py) ----
    kind,        \* "space" (SpaceRunner) or "endpoint" (EndpointsRunner)
    params,      \* the params object handed to the runner (mutable: data_path)
    backend,     \* the runner's backend string
    fs,          \* local filesystem: the set of paths for which os.path.exists holds
    pc,          \* position of the caller / of prepare()
    calls,       \* provider calls made by the current prepare(), in order
    ret,         \* value returned by prepare() (NoValue when none)
    err,         \* exception raised out of prepare() (NoError when none)
    prepares,    \* number of prepare() calls made on this runner object
    callStart,   \* snapshot taken when the current prepare() was entered
    repos,       \* provider: existing space repositories
    secrets,     \* provider: repo -> (key -> value) of the secrets written
    files,       \* provider: set of <<repo, path>> uploaded
    datasets,    \* registry: dataset repositories written by staging
    endpoints,   \* provider: names of the endpoints that exist
    posted,      \* provider: the creation requests POSTed, in order
    response,    \* response of the endpoint-creation request of this call
    staged,      \* values _llm_munge_data returned to prepare(), one per call, in order
    hardware,    \* provider: repo -> hardware tier it was created with
    \* ---- job runner (trainers/generic/utils.py) ----
    rpc,         \* position of the job runner
    workdir,     \* files pulled into {project_name}/
    environ,     \* keys of os.environ inside the unit
    exits,       \* exit status the subprocesses will have: [pip, script]
    spawned,     \* subprocesses spawned so far, in order
    waited,      \* subprocesses whose exit has been waited for
    outcome,     \* function name -> "returned" | exception name, for calls finished
    pauseCalls,  \* number of invocations of pause_endpoint
    pauseRequests, \* pause URLs POSTed
    pauseReply,  \* what the provider answers to the pause request
    \* ---- descriptor parsing (spacerunner.py, _create_endpoint lines 61-66) ----
    descriptor,  \* the composite hardware descriptor handed to the parse
    parsed,      \* <<>> before the parse, then its fields or the exception
    \* ---- configuration UI (app.py, the job list of the Params tab) ----
    task_type,   \* value of the Task dropdown
    model_choice,  \* value of the Model Choice dropdown
    param_choice,  \* value of the Param Choice dropdown
    hub_model,   \* value of the Model textbox
    add_job_button,  \* whether the Add Job button is visible
    training_params_txt,  \* value of the hidden textbox: the job list as JSON text
    accepted,    \* history: entries of the clicks _add_job accepted since the last change event
    \* ---- token-classification trainer (trainers/token_classification/__main__.py) ----
    push_to_hub, \* config.push_to_hub
    tdone,       \* process index -> the statements of train() it has completed, in order
    tcur,        \* process index -> the statement it is executing, "none" between statements
    tend,        \* process index -> "running" | "returned" | "raised"
    pauseSpaceCalls  \* process index -> number of invocations of pause_space

pvars == <<kind, params, backend, fs, pc, calls, ret, err, prepares, callStart,
           repos, secrets, files, datasets, endpoints, posted, response, staged,
           hardware>>
rvars == <<rpc, workdir, environ, exits, spawned, waited, outcome, pauseCalls,
           pauseRequests, pauseReply>>
dvars == <<descriptor, parsed>>
uvars == <<task_type, model_choice, param_choice, hub_model, add_job_button,
           training_params_txt, accepted>>
tvars == <<push_to_hub, tdone, tcur, tend, pauseSpaceCalls>>
vars == <<pvars, rvars, dvars, uvars, tvars>>

\* ------------------------------------------------------------------ bounds
\* how many times the caller invokes prepare() on one runner object
MaxPrepares == 2

\* ------------------------------------------------------------------ strings
RECURSIVE SplitAcc(_, _, _)
SplitAcc(s, sep, cur) ==
    IF s = <<>> THEN <<cur>>
    ELSE IF Head(s) = sep THEN <<cur>> \o SplitAcc(Tail(s), sep, <<>>)
    ELSE SplitAcc(Tail(s), sep, Append(cur, Head(s)))

\* str.split(sep): the list of the pieces between the separators
Split(s, sep) == SplitAcc(s, sep, <<>>)

\* str.lower() on the tokens the model uses
LowerTok(t) ==
    CASE t = "A10GL" -> "a10gl"
      [] t = "T4S" -> "t4s"
      [] OTHER -> t

Lower(s) == [i \in 1..Len(s) |-> LowerTok(s[i])]

\* str(n) for the small integers the code formats
IntToStr(n) == <<CASE n = 9 -> "9" [] n = 1 -> "1" [] n = 0 -> "0" [] OTHER -> "?">>

NoValue == <<"<no value>">>
NoError == "none"

\* ------------------------------------------------------------------ inputs
LLM == "LLMTrainingParams"
OtherParams == "TextClassificationParams"

Token == <<"hf_tok">>
RepoId == <<"acme", "/", "out">>
RepoIds == {RepoId, <<"bob", "/", "m">>}
ModelRef == <<"gpt2">>
TrainSplit == <<"train">>
TrainSplits == {TrainSplit, <<"tr">>}

ProjectNames == {<<"run1">>, <<"run2">>}

\* "" (no dataset reference), a local directory, a registry reference
Unresolved == <<>>
DataPaths == {Unresolved, <<"/data">>, <<"acme", "/", "ds">>}

\* the local files that may exist
LocalFiles == {<<"/data", "/", "train", ".csv">>, <<"acme", "/", "ds", "/", "tr", ".csv">>}

SpaceBackendInputs ==
    {<<"spaces", "-", "A10GL">>, <<"spaces", "-", "t4s">>, <<"spaces", "-", "h100">>, <<"local">>}
EndpointBackendInputs ==
    {<<"ep", "-", "aws", "-", "useast1", "-", sz>> :
        sz \in {"s", "m", "l", "xl", "2xl", "4xl", "8xl"}}
    \cup {<<"ep", "-", "gcp", "-", "s">>}

ParamsOf(cls, project, dp) ==
    [cls |-> cls, token |-> Token, project_name |-> project, repo_id |-> RepoId,
     data_path |-> dp, train_split |-> TrainSplit, model |-> ModelRef]

ParamsWith(cls, project, dp, repo, split) ==
    [ParamsOf(cls, project, dp) EXCEPT !.repo_id = repo, !.train_split = split]

\* ------------------------------------------------------------------ catalog
\* the table with the tier of "t4s" copied from the line above it
spaces_backends_t4s_medium ==
    [k \in {<<"a10gl">>, <<"a10gs">>, <<"a100">>, <<"t4m">>, <<"t4s">>} |->
        CASE k = <<"a10gl">> -> <<"a10g", "-", "large">>
          [] k = <<"a10gs">> -> <<"a10g", "-", "small">>
          [] k = <<"a100">> -> <<"a100", "-", "large">>
          [] k = <<"t4m">> -> <<"t4", "-", "medium">>
          [] k = <<"t4s">> -> <<"t4", "-", "medium">>]

\* SpaceRunner.__post_init__: self.spaces_backends
spaces_backends ==
    [k \in {<<"a10gl">>, <<"a10gs">>, <<"a100">>, <<"t4m">>, <<"t4s">>} |->
        CASE k = <<"a10gl">> -> <<"a10g", "-", "large">>
          [] k = <<"a10gs">> -> <<"a10g", "-", "small">>
          [] k = <<"a100">> -> <<"a100", "-", "large">>
          [] k = <<"t4m">> -> <<"t4", "-", "medium">>
          [] k = <<"t4s">> -> <<"t4", "-", "small">>]

EpKey(size) == <<"ep", "-", "aws", "-", "useast1", "-", size>>
EpHw(size, itype) == <<"aws", "_", "us-east-1", "_", "gpu", "_", size, "_", itype>>

\* EndpointsRunner.__post_init__: self.endpoints_backends
endpoints_backends ==
    [k \in {EpKey("s"), EpKey("m"), EpKey("l"), EpKey("xl"), EpKey("2xl"),
            EpKey("4xl"), EpKey("8xl")} |->
        CASE k = EpKey("s") -> EpHw("small", "g4dn.xlarge")
          [] k = EpKey("m") -> EpHw("medium", "g5.2xlarge")
          [] k = EpKey("l") -> EpHw("large", "g4dn.12xlarge")
          [] k = EpKey("xl") -> EpHw("xlarge", "p4de")
          [] k = EpKey("2xl") -> EpHw("2xlarge", "p4de")
          [] k = EpKey("4xl") -> EpHw("4xlarge", "p4de")
          [] k = EpKey("8xl") -> EpHw("8xlarge", "p4de")]

\* __post_init__ of both runners: self.username = self.params.repo_id.split("/")[0]
username == Split(params.repo_id, "/")[1]

\* __post_init__ / prepare: self.task_id = 9 for LLMTrainingParams
task_id == 9

\* EndpointsRunner.__post_init__: self.api_url
api_url == <<"https://api.endpoints.huggingface.cloud/v2/endpoint", "/">> \o username

\* ------------------------------------------------------------------ staging
train_data_path(p) == p.data_path \o <<"/">> \o p.train_split \o <<".csv">>

\* a reference named after the data path instead of the project
StagedRefFromDataPath(p, user) == user \o <<"/", "autotrain", "-", "data", "-">> \o p.data_path

\* _llm_munge_data: the reference returned after dset.prepare() (line 35)
StagedRef(p, user) == user \o <<"/", "autotrain", "-", "data", "-">> \o p.project_name

\* _llm_munge_data: whether the dataset builder is constructed and prepared
MungeWrites(p) == train_data_path(p) \in fs

\* _llm_munge_data that stages a reference whether or not the file exists
llm_munge_data_always_staged(p, user) == StagedRef(p, user)

\* _llm_munge_data whose last line returns train_data_path
llm_munge_data_returns_train_path(p, user) ==
    IF train_data_path(p) \in fs THEN StagedRef(p, user) ELSE train_data_path(p)

\* _llm_munge_data that ends without a return when the file is absent
llm_munge_data_falls_through(p, user) ==
    IF MungeWrites(p) THEN StagedRef(p, user) ELSE Unresolved

\* _llm_munge_data: the value returned when it does not raise
llm_munge_data(p, user) ==
    IF MungeWrites(p) THEN StagedRef(p, user) ELSE p.data_path

\* ------------------------------------------------------------------ HostedApp
\* SpaceRunner._create_space: repo_id
space_repo_id(p) == username \o <<"/", "autotrain", "-">> \o p.project_name

\* SpaceRunner._create_space: the exception raised while evaluating
\* self.spaces_backends[self.backend.split("-")[1].lower()], NoError when none
SpaceHardwareError(b) ==
    IF Len(Split(b, "-")) < 2 THEN "IndexError"
    ELSE IF Lower(Split(b, "-")[2]) \notin DOMAIN spaces_backends THEN "KeyError"
    ELSE NoError

space_hardware(b) == spaces_backends[Lower(Split(b, "-")[2])]

\* json.dumps(self.params.json()): the serialized fields of the params object
ParamsJson(p) ==
    <<"{", p.cls, ",">> \o p.project_name \o <<",">> \o p.data_path \o <<",">>
        \o p.model \o <<",">> \o p.repo_id \o <<"}">>

\* _add_secrets with the DATA_PATH call left out
SecretKeysWithoutDataPath ==
    <<"HF_TOKEN", "AUTOTRAIN_USERNAME", "PROJECT_NAME", "PARAMS",
      "TASK_ID", "MODEL", "OUTPUT_MODEL_REPO">>

\* SpaceRunner._add_secrets: the keys, in the order of the calls
SecretKeys ==
    <<"HF_TOKEN", "AUTOTRAIN_USERNAME", "PROJECT_NAME", "PARAMS", "DATA_PATH",
      "TASK_ID", "MODEL", "OUTPUT_MODEL_REPO">>

\* SpaceRunner._add_secrets / EndpointsRunner._create_endpoint env: value of a key
SecretValue(key, p) ==
    CASE key = "HF_TOKEN" -> p.token
      [] key = "AUTOTRAIN_USERNAME" -> username
      [] key = "PROJECT_NAME" -> p.project_name
      [] key = "PARAMS" -> ParamsJson(p)
      [] key = "DATA_PATH" -> p.data_path
      [] key = "TASK_ID" -> IntToStr(task_id)
      [] key = "MODEL" -> p.model
      [] key = "OUTPUT_MODEL_REPO" -> p.repo_id

\* SpaceRunner._create_space: path_in_repo of the uploads, in order
ArtifactPaths == <<"README.md", "Dockerfile">>

\* create_repo called with exist_ok=True, as the trainers do for model repos
create_repo_exist_ok_true == TRUE

\* api.create_repo(...) is called without exist_ok, i.e. exist_ok = False
create_repo_exist_ok == FALSE

Call(op, arg, ok) == [op |-> op, arg |-> arg, ok |-> ok]

CallsOf(op) == SelectSeq(calls, LAMBDA c : c.op = op)

Snapshot ==
    [data_path |-> params.data_path, repos |-> repos, secrets |-> secrets,
     files |-> files, endpoints |-> endpoints, datasets |-> datasets]

Raise(e) == pc' = "raised" /\ err' = e /\ ret' = NoValue

\* prepare() that drops the value of _llm_munge_data
KeepDataPath(p, v) == p

\* prepare(): self.params.data_path = data_path
AssignDataPath(p, v) == [p EXCEPT !.data_path = v]

\* prepare() that takes any params object for language-model parameters
IsAnyParams(p) == TRUE

\* prepare(): isinstance(self.params, LLMTrainingParams)
IsLLM(p) == p.cls = LLM

\* the caller invokes prepare(); the isinstance test of its first line
PrepareCall ==
    /\ pc \in {"idle", "returned", "raised"}
    /\ prepares < MaxPrepares
    /\ prepares' = prepares + 1
    /\ calls' = <<>>
    /\ callStart' = Snapshot
    /\ response' = <<>>
    /\ IF IsLLM(params)
       THEN pc' = "munge" /\ err' = NoError /\ ret' = NoValue
       ELSE Raise("NotImplementedError")
    /\ UNCHANGED <<rvars, dvars, uvars, tvars, staged, hardware, kind, params, backend, fs, repos, secrets, files, datasets,
                   endpoints, posted>>

\* prepare(): data_path = _llm_munge_data(...); self.params.data_path = data_path
Munge ==
    /\ pc = "munge"
    /\ IF MungeWrites(params)
       THEN \E ok \in BOOLEAN :
               /\ calls' = Append(calls, Call("push_dataset", StagedRef(params, username), ok))
               /\ IF ok
                  THEN /\ datasets' = datasets \cup {StagedRef(params, username)}
                       /\ staged' = Append(staged, llm_munge_data(params, username))
                       /\ params' = AssignDataPath(params, llm_munge_data(params, username))
                       /\ pc' = "create"
                       /\ UNCHANGED <<err, ret>>
                  ELSE /\ Raise("HfHubHTTPError")
                       /\ UNCHANGED <<datasets, params, staged>>
       ELSE /\ staged' = Append(staged, llm_munge_data(params, username))
            /\ params' = AssignDataPath(params, llm_munge_data(params, username))
            /\ pc' = "create"
            /\ UNCHANGED <<calls, datasets, err, ret>>
    /\ UNCHANGED <<rvars, dvars, uvars, tvars, hardware, kind, backend, fs, prepares, callStart, repos, secrets, files,
                   endpoints, posted, response>>

\* _create_space: api.create_repo(...)
CreateRepo ==
    /\ pc = "create" /\ kind = "space"
    /\ IF SpaceHardwareError(backend) # NoError
       THEN /\ Raise(SpaceHardwareError(backend))
            /\ UNCHANGED <<calls, repos, secrets, hardware>>
       ELSE \E net \in BOOLEAN :
            LET rid == space_repo_id(params)
                ok == net /\ (rid \notin repos \/ create_repo_exist_ok)
            IN /\ calls' = Append(calls, Call("create_repo", rid, ok))
               /\ IF ok
                  THEN /\ repos' = repos \cup {rid}
                       /\ secrets' = IF rid \in DOMAIN secrets THEN secrets
                                     ELSE [r \in DOMAIN secrets \cup {rid} |->
                                             IF r = rid THEN <<>> ELSE secrets[r]]
                       /\ hardware' = [r \in DOMAIN hardware \cup {rid} |->
                                          IF r = rid THEN space_hardware(backend)
                                          ELSE hardware[r]]
                       /\ pc' = "secrets"
                       /\ UNCHANGED <<err, ret>>
                  ELSE /\ Raise(IF net THEN "HfHubHTTPError409" ELSE "ConnectionError")
                       /\ UNCHANGED <<repos, secrets, hardware>>
    /\ UNCHANGED <<rvars, dvars, uvars, tvars, staged, kind, params, backend, fs, prepares, callStart, files, datasets,
                   endpoints, posted, response>>

\* _add_secrets: the next api.add_space_secret(...) call
AddSecret ==
    /\ pc = "secrets"
    /\ \E ok \in BOOLEAN :
        LET rid == space_repo_id(params)
            i == Len(CallsOf("add_space_secret")) + 1
            key == SecretKeys[i]
        IN /\ calls' = Append(calls, Call("add_space_secret", <<key>>, ok))
           /\ secrets' = IF ok
                         THEN [secrets EXCEPT ![rid] =
                                 [k \in DOMAIN secrets[rid] \cup {key} |->
                                    IF k = key THEN SecretValue(key, params)
                                    ELSE secrets[rid][k]]]
                         ELSE secrets
           /\ IF ~ok
              THEN Raise("HfHubHTTPError")
              ELSE /\ pc' = IF i = Len(SecretKeys) THEN "upload" ELSE "secrets"
                   /\ UNCHANGED <<err, ret>>
    /\ UNCHANGED <<rvars, dvars, uvars, tvars, staged, hardware, kind, params, backend, fs, prepares, callStart, repos, files,
                   datasets, endpoints, posted, response>>

\* _create_space: the next api.upload_file(...) call; return repo_id after the last
UploadFile ==
    /\ pc = "upload"
    /\ \E ok \in BOOLEAN :
        LET rid == space_repo_id(params)
            i == Len(CallsOf("upload_file")) + 1
            path == ArtifactPaths[i]
        IN /\ calls' = Append(calls, Call("upload_file", <<path>>, ok))
           /\ files' = IF ok THEN files \cup {<<rid, path>>} ELSE files
           /\ IF ~ok
              THEN Raise("HfHubHTTPError")
              ELSE IF i = Len(ArtifactPaths)
                   THEN pc' = "returned" /\ ret' = rid /\ UNCHANGED err
                   ELSE UNCHANGED <<pc, err, ret>>
    /\ UNCHANGED <<rvars, dvars, uvars, tvars, staged, hardware, kind, params, backend, fs, prepares, callStart, repos, secrets,
                   datasets, endpoints, posted, response>>

\* ------------------------------------------------------------------ ManagedEndpoint
\* _create_endpoint: the exception raised while resolving and parsing the
\* hardware descriptor (lines 61-66), NoError when none
\* _create_endpoint lines 62-66: the exception raised by hardware.split("_")[i],
\* i = 0..4, NoError when none
ParseError(hw) == IF Len(Split(hw, "_")) < 5 THEN "IndexError" ELSE NoError

\* _create_endpoint lines 62-66: the fields read from the descriptor
ParseDescriptor(hw) ==
    [accelerator |-> Split(hw, "_")[3],
     instance_size |-> Split(hw, "_")[4],
     region |-> Split(hw, "_")[2],
     vendor |-> Split(hw, "_")[1],
     instance_type |-> Split(hw, "_")[5]]

EndpointHardwareError(b) ==
    IF b \notin DOMAIN endpoints_backends THEN "KeyError"
    ELSE ParseError(endpoints_backends[b])

EnvKeys == {SecretKeys[i] : i \in 1..Len(SecretKeys)} \cup {"ENDPOINT_ID"}

\* an env block that passes the dataset reference under another name
EndpointEnvDatasetKey(p) ==
    [HF_TOKEN |-> p.token,
     AUTOTRAIN_USERNAME |-> username,
     PROJECT_NAME |-> p.project_name,
     PARAMS |-> ParamsJson(p),
     DATASET |-> p.data_path,
     TASK_ID |-> IntToStr(task_id),
     MODEL |-> p.model,
     OUTPUT_MODEL_REPO |-> p.repo_id,
     ENDPOINT_ID |-> username \o <<"/">> \o p.project_name]

\* an env block that identifies the unit by the output repository
EndpointEnvRepoIdentity(p) ==
    [HF_TOKEN |-> p.token,
     AUTOTRAIN_USERNAME |-> username,
     PROJECT_NAME |-> p.project_name,
     PARAMS |-> ParamsJson(p),
     DATA_PATH |-> p.data_path,
     TASK_ID |-> IntToStr(task_id),
     MODEL |-> p.model,
     OUTPUT_MODEL_REPO |-> p.repo_id,
     ENDPOINT_ID |-> p.repo_id]

\* _create_endpoint: payload["model"]["image"]["custom"]["env"] (lines 79-89)
EndpointEnv(p) ==
    [HF_TOKEN |-> p.token,
     AUTOTRAIN_USERNAME |-> username,
     PROJECT_NAME |-> p.project_name,
     PARAMS |-> ParamsJson(p),
     DATA_PATH |-> p.data_path,
     TASK_ID |-> IntToStr(task_id),
     MODEL |-> p.model,
     OUTPUT_MODEL_REPO |-> p.repo_id,
     ENDPOINT_ID |-> username \o <<"/">> \o p.project_name]

\* scaling that lets the large tiers grow to a second replica
ScalingAutoscaled == [maxReplica |-> 2, minReplica |-> 1]

\* _create_endpoint: payload["compute"]["scaling"] (line 73)
Scaling == [maxReplica |-> 1, minReplica |-> 1]

\* _create_endpoint: payload
EndpointPayload(b, p) ==
    LET hw == ParseDescriptor(endpoints_backends[b])
    IN [accountId |-> username,
        accelerator |-> hw.accelerator,
        instanceSize |-> hw.instance_size,
        instanceType |-> hw.instance_type,
        scaling |-> Scaling,
        env |-> EndpointEnv(p),
        name |-> p.project_name,
        region |-> hw.region,
        vendor |-> hw.vendor]

\* HTTP statuses the provider answers the creation request with
Statuses == {202, 409, 502}
IsSuccess(st) == st \in 200..299

\* bodies of the provider's responses; a 502 comes from a gateway and is not JSON
ResponseBody(st, p) ==
    CASE st = 202 -> <<"{", "name", ":">> \o p.project_name \o <<"}">>
      [] st = 409 -> <<"{", "error", ":", "conflict", "}">>
      [] OTHER -> <<"<html>", "Bad Gateway", "</html>">>
BodyIsJson(st) == st # 502

\* _create_endpoint, after requests.post returned r: logger.info(r.json());
\* return r.json(). "return" or the exception raised.
EndpointResult(st) == IF BodyIsJson(st) THEN "return" ELSE "JSONDecodeError"

\* _create_endpoint that posts the request a second time after a response
\* that is not JSON
CreateEndpointRetrying ==
    /\ pc = "create" /\ kind = "endpoint"
    /\ IF EndpointHardwareError(backend) # NoError
       THEN /\ Raise(EndpointHardwareError(backend))
            /\ UNCHANGED <<calls, endpoints, posted, response>>
       ELSE \E net \in BOOLEAN, st \in Statuses :
            LET payload == EndpointPayload(backend, params)
                eid == <<payload.accountId, payload.name>>
            IN IF ~net
               THEN /\ calls' = Append(calls, Call("create_endpoint", api_url, FALSE))
                    /\ Raise("ConnectionError")
                    /\ UNCHANGED <<endpoints, posted, response>>
               ELSE /\ (eid \in endpoints => ~IsSuccess(st))
                    /\ calls' = Append(calls, Call("create_endpoint", api_url, IsSuccess(st)))
                    /\ posted' = Append(posted, payload)
                    /\ response' = <<[status |-> st, body |-> ResponseBody(st, params)]>>
                    /\ endpoints' = IF IsSuccess(st) THEN endpoints \cup {eid} ELSE endpoints
                    /\ IF EndpointResult(st) = "return"
                       THEN pc' = "returned" /\ ret' = ResponseBody(st, params) /\ UNCHANGED err
                       ELSE IF CallsOf("create_endpoint") = <<>>
                            THEN UNCHANGED <<pc, err, ret>>
                            ELSE Raise(EndpointResult(st))
    /\ UNCHANGED <<rvars, dvars, uvars, tvars, staged, hardware, kind, params, backend, fs, prepares, callStart, repos, secrets,
                   files, datasets>>

\* _create_endpoint as called from EndpointsRunner.prepare
CreateEndpoint ==
    /\ pc = "create" /\ kind = "endpoint"
    /\ IF EndpointHardwareError(backend) # NoError
       THEN /\ Raise(EndpointHardwareError(backend))
            /\ UNCHANGED <<calls, endpoints, posted, response>>
       ELSE \E net \in BOOLEAN, st \in Statuses :
            LET payload == EndpointPayload(backend, params)
                eid == <<payload.accountId, payload.name>>
            IN IF ~net
               THEN /\ calls' = Append(calls, Call("create_endpoint", api_url, FALSE))
                    /\ Raise("ConnectionError")
                    /\ UNCHANGED <<endpoints, posted, response>>
               ELSE /\ (eid \in endpoints => ~IsSuccess(st))
                    /\ calls' = Append(calls, Call("create_endpoint", api_url, IsSuccess(st)))
                    /\ posted' = Append(posted, payload)
                    /\ response' = <<[status |-> st, body |-> ResponseBody(st, params)]>>
                    /\ endpoints' = IF IsSuccess(st) THEN endpoints \cup {eid} ELSE endpoints
                    /\ IF EndpointResult(st) = "return"
                       THEN pc' = "returned" /\ ret' = ResponseBody(st, params) /\ UNCHANGED err
                       ELSE Raise(EndpointResult(st))
    /\ UNCHANGED <<rvars, dvars, uvars, tvars, staged, hardware, kind, params, backend, fs, prepares, callStart, repos, secrets,
                   files, datasets>>

\* ------------------------------------------------------------------ job runner (idle part)
RunnerIdle ==
    /\ rpc = "off"
    /\ workdir = {}
    /\ environ = <<>>
    /\ exits = [pip |-> 0, script |-> 0]
    /\ spawned = <<>>
    /\ waited = {}
    /\ outcome = [pull |-> "not called", install |-> "not called",
                  run |-> "not called", pause |-> "not called"]
    /\ pauseCalls = 0
    /\ pauseRequests = <<>>
    /\ pauseReply = "none"

\* ------------------------------------------------------------------ configuration UI (idle part)
\* json.dumps([]), the value training_params_txt is constructed with
EmptyJobList == <<"[", "]">>

\* the widgets as main() constructs them
UIIdle ==
    /\ task_type = "Text Classification"
    /\ model_choice = "AutoTrain"
    /\ param_choice = "AutoTrain"
    /\ hub_model = ""
    /\ add_job_button = FALSE
    /\ training_params_txt = EmptyJobList
    /\ accepted = <<>>

\* ------------------------------------------------------------------ trainer (idle part)
\* number of processes the launcher starts train() in
NumProcs == 2

Procs == 0..(NumProcs - 1)

TrainIdle ==
    /\ push_to_hub = FALSE
    /\ tdone = [i \in Procs |-> <<>>]
    /\ tcur = [i \in Procs |-> "none"]
    /\ tend = [i \in Procs |-> "running"]
    /\ pauseSpaceCalls = [i \in Procs |-> 0]

\* ------------------------------------------------------------------ provisioning specification
\* a repository left by an earlier, unrelated unit of the same name
OldSecrets(rid) == [r \in {rid} |-> [k \in {"HF_TOKEN"} |-> <<"old_tok">>]]

ProvInit ==
    /\ kind \in {"space", "endpoint"}
    /\ \E cls \in {LLM, OtherParams}, project \in ProjectNames, dp \in DataPaths,
          repo \in RepoIds, split \in TrainSplits :
          params = ParamsWith(cls, project, dp, repo, split)
    /\ backend \in IF kind = "space" THEN SpaceBackendInputs ELSE EndpointBackendInputs
    /\ fs \in SUBSET LocalFiles
    /\ pc = "idle"
    /\ calls = <<>>
    /\ ret = NoValue
    /\ err = NoError
    /\ prepares = 0
    /\ \E existing \in BOOLEAN :
          IF existing /\ kind = "space"
          THEN /\ repos = {space_repo_id(params)}
               /\ secrets = OldSecrets(space_repo_id(params))
               /\ files = {<<space_repo_id(params), "README.md">>}
               /\ hardware = [r \in {space_repo_id(params)} |-> <<"cpu", "-", "basic">>]
               /\ endpoints = {}
          ELSE IF existing
          THEN /\ repos = {} /\ secrets = <<>> /\ files = {} /\ hardware = <<>>
               /\ endpoints = {<<username, params.project_name>>}
          ELSE /\ repos = {} /\ secrets = <<>> /\ files = {} /\ hardware = <<>>
               /\ endpoints = {}
    /\ datasets = {}
    /\ posted = <<>>
    /\ response = <<>>
    /\ staged = <<>>
    /\ callStart = Snapshot

\* no descriptor is being parsed on its own
ParseIdle == descriptor = <<>> /\ parsed = <<>>

Init == ProvInit /\ RunnerIdle /\ ParseIdle /\ UIIdle /\ TrainIdle

Next ==
    \/ PrepareCall
    \/ Munge
    \/ CreateRepo
    \/ AddSecret
    \/ UploadFile
    \/ CreateEndpoint

Spec == Init /\ [][Next]_vars

\* ------------------------------------------------------------------ job runner
\* the files a pulled dataset repository may contain
PulledFiles == {"requirements.txt", "script.py"}
ExitCodes == {0, 1}
PauseReplies == {"ok-json", "error-json", "not-json", "conn-error"}

\* the secrets of a HostedApp unit as its process environment
SpaceEnv(p) == [k \in {SecretKeys[i] : i \in 1..Len(SecretKeys)} |-> SecretValue(k, p)]

\* install_requirements that runs pip without looking for the manifest
InstallSpawnsAlways(wd) == TRUE

\* install_requirements: whether pip is spawned (os.path.exists of the manifest)
InstallSpawns(wd) == "requirements.txt" \in wd

\* install_requirements: "returned" or the exception raised, given pip's exit status
InstallResult(wd, exit) == "returned"

\* run_command: whether the entry point is spawned
RunSpawns(wd) == "script.py" \in wd

\* run_command that logs the missing script and returns
RunResultSilent(wd, exit) == "returned"

\* run_command: "returned" or the exception raised, given the script's exit status
RunResult(wd, exit) == IF "script.py" \in wd THEN "returned" ELSE "ValueError"

\* pause_endpoint: api_url
PauseUrl(env) ==
    <<"https://api.endpoints.huggingface.cloud/v2/endpoint", "/">>
        \o Split(env["ENDPOINT_ID"], "/")[1] \o <<"/">>
        \o Split(env["ENDPOINT_ID"], "/")[2] \o <<"/", "pause">>

\* pause_endpoint: the exception raised before the request is sent, NoError when none
PauseEnvError(env) ==
    IF "ENDPOINT_ID" \notin DOMAIN env THEN "KeyError"
    ELSE IF Len(Split(env["ENDPOINT_ID"], "/")) < 2 THEN "IndexError"
    ELSE NoError

\* pause_endpoint: "returned" or the exception raised
PauseResult(env, reply) ==
    IF PauseEnvError(env) # NoError THEN PauseEnvError(env)
    ELSE IF reply = "conn-error" THEN "ConnectionError"
    ELSE IF reply = "not-json" THEN "JSONDecodeError"
    ELSE "returned"

\* a runner that lets the exception of run_command end the run
RunnerNextNoPauseOnError(at, result) ==
    CASE at = "boot" -> IF result = "returned" THEN "pulled" ELSE "pausing"
      [] at = "pulled" -> IF result = "returned" THEN "installed" ELSE "pausing"
      [] at = "installed" -> IF result = "returned" THEN "pausing" ELSE "done"
      [] at = "pausing" -> "done"

\* the runner's sequencing of the four functions (section 4.4 of the design):
\* a failed pull or install aborts the run, and pause follows in every case
RunnerNext(at, result) ==
    CASE at = "boot" -> IF result = "returned" THEN "pulled" ELSE "pausing"
      [] at = "pulled" -> IF result = "returned" THEN "installed" ELSE "pausing"
      [] at = "installed" -> "pausing"
      [] at = "pausing" -> "done"

\* pull_dataset_repo
RunnerPull ==
    /\ rpc = "boot"
    /\ \E ok \in BOOLEAN, contents \in SUBSET PulledFiles :
        /\ workdir' = IF ok THEN contents ELSE {}
        /\ outcome' = [outcome EXCEPT !.pull = IF ok THEN "returned" ELSE "HfHubHTTPError"]
        /\ rpc' = RunnerNext(rpc, outcome'.pull)
    /\ UNCHANGED <<pvars, dvars, uvars, tvars, environ, exits, spawned, waited, pauseCalls, pauseRequests,
                   pauseReply>>

\* install_requirements
RunnerInstall ==
    /\ rpc = "pulled"
    /\ IF InstallSpawns(workdir)
       THEN spawned' = Append(spawned, "pip") /\ waited' = waited \cup {"pip"}
       ELSE UNCHANGED <<spawned, waited>>
    /\ outcome' = [outcome EXCEPT !.install = InstallResult(workdir, exits.pip)]
    /\ rpc' = RunnerNext(rpc, outcome'.install)
    /\ UNCHANGED <<pvars, dvars, uvars, tvars, workdir, environ, exits, pauseCalls, pauseRequests, pauseReply>>

\* run_command
RunnerRun ==
    /\ rpc = "installed"
    /\ IF RunSpawns(workdir)
       THEN spawned' = Append(spawned, "python") /\ waited' = waited \cup {"python"}
       ELSE UNCHANGED <<spawned, waited>>
    /\ outcome' = [outcome EXCEPT !.run = RunResult(workdir, exits.script)]
    /\ rpc' = RunnerNext(rpc, outcome'.run)
    /\ UNCHANGED <<pvars, dvars, uvars, tvars, workdir, environ, exits, pauseCalls, pauseRequests, pauseReply>>

\* pause_endpoint
RunnerPause ==
    /\ rpc = "pausing"
    /\ pauseCalls' = pauseCalls + 1
    /\ pauseRequests' = IF PauseEnvError(environ) = NoError
                        THEN Append(pauseRequests, PauseUrl(environ))
                        ELSE pauseRequests
    /\ outcome' = [outcome EXCEPT !.pause = PauseResult(environ, pauseReply)]
    /\ rpc' = RunnerNext(rpc, outcome'.pause)
    /\ UNCHANGED <<pvars, dvars, uvars, tvars, workdir, environ, exits, spawned, waited, pauseReply>>

\* the unit has been provisioned and boots the runner
ProvDone ==
    /\ kind \in {"space", "endpoint"}
    /\ \E project \in ProjectNames, repo \in RepoIds :
          params = ParamsWith(LLM, project, <<"acme", "/", "ds">>, repo, TrainSplit)
    /\ backend = IF kind = "space" THEN <<"spaces", "-", "t4s">> ELSE EpKey("s")
    /\ fs = {}
    /\ pc = "returned"
    /\ calls = <<>>
    /\ ret = NoValue
    /\ err = NoError
    /\ prepares = 1
    /\ repos = IF kind = "space" THEN {space_repo_id(params)} ELSE {}
    /\ secrets = IF kind = "space"
                 THEN [r \in {space_repo_id(params)} |-> SpaceEnv(params)] ELSE <<>>
    /\ files = {}
    /\ datasets = {}
    /\ endpoints = IF kind = "endpoint" THEN {<<username, params.project_name>>} ELSE {}
    /\ posted = <<>>
    /\ response = <<>>
    /\ staged = <<params.data_path>>
    /\ hardware = IF kind = "space"
                  THEN [r \in {space_repo_id(params)} |-> space_hardware(backend)] ELSE <<>>
    /\ callStart = Snapshot

RunnerInit ==
    /\ ProvDone
    /\ ParseIdle
    /\ UIIdle
    /\ TrainIdle
    /\ rpc = "boot"
    /\ workdir = {}
    /\ environ = IF kind = "space" THEN SpaceEnv(params) ELSE EndpointEnv(params)
    /\ exits \in [pip : ExitCodes, script : ExitCodes]
    /\ spawned = <<>>
    /\ waited = {}
    /\ outcome = [pull |-> "not called", install |-> "not called",
                  run |-> "not called", pause |-> "not called"]
    /\ pauseCalls = 0
    /\ pauseRequests = <<>>
    /\ pauseReply \in PauseReplies

RunnerStep ==
    \/ RunnerPull
    \/ RunnerInstall
    \/ RunnerRun
    \/ RunnerPause

RunnerSpec == RunnerInit /\ [][RunnerStep]_vars

\* ------------------------------------------------------------------ properties
Range(q) == {q[i] : i \in 1..Len(q)}

\* the calls of the current prepare() that go to the unit's provider
\* (everything but the registry write of staging)
ProviderCalls == SelectSeq(calls, LAMBDA c : c.op # "push_dataset")

HostedAppCallOrder ==
    <<<<"create_repo", <<>>>>,
      <<"add_space_secret", <<"HF_TOKEN">>>>,
      <<"add_space_secret", <<"AUTOTRAIN_USERNAME">>>>,
      <<"add_space_secret", <<"PROJECT_NAME">>>>,
      <<"add_space_secret", <<"PARAMS">>>>,
      <<"add_space_secret", <<"DATA_PATH">>>>,
      <<"add_space_secret", <<"TASK_ID">>>>,
      <<"add_space_secret", <<"MODEL">>>>,
      <<"add_space_secret", <<"OUTPUT_MODEL_REPO">>>>,
      <<"upload_file", <<"README.md">>>>,
      <<"upload_file", <<"Dockerfile">>>>>>

\* C1: in every SpaceRunner.prepare() the provider calls are a prefix of
\* create_repo, the 8 secrets in their order, README.md, Dockerfile; a call is
\* made only when every earlier call succeeded; and prepare() has returned
\* exactly when all 11 calls (1 create, 8 secrets, 2 uploads) succeeded, the
\* value returned being the identifier of the repository created.
C1_HostedAppCallOrder ==
    kind = "space" =>
        /\ Len(ProviderCalls) <= Len(HostedAppCallOrder)
        /\ \A i \in 1..Len(ProviderCalls) :
              /\ ProviderCalls[i].op = HostedAppCallOrder[i][1]
              /\ i > 1 => ProviderCalls[i].arg = HostedAppCallOrder[i][2]
              /\ i < Len(ProviderCalls) => ProviderCalls[i].ok
        /\ pc = "returned" <=>
              /\ Len(ProviderCalls) = 11
              /\ \A i \in 1..11 : ProviderCalls[i].ok
              /\ ret = ProviderCalls[1].arg
        /\ pc = "returned" =>
              /\ Len(CallsOf("create_repo")) = 1
              /\ Len(CallsOf("add_space_secret")) = 8
              /\ Len(CallsOf("upload_file")) = 2
              /\ ret = username \o <<"/", "autotrain", "-">> \o params.project_name

C1_Witness ==
    kind = "space" /\ pc = "returned" /\ Len(ProviderCalls) = 11

FailedSecretKeys ==
    {c.arg[1] : c \in {d \in Range(CallsOf("add_space_secret")) : ~d.ok}}

\* C2: when an add_space_secret call fails, injection is still attempted for
\* all 8 keys, every key whose call did not fail is written, and the error
\* raised is SecretInjectionFailed naming the failed keys.
C2_SecretFailuresAggregated ==
    (kind = "space" /\ pc = "raised" /\ FailedSecretKeys # {}) =>
        /\ Len(CallsOf("add_space_secret")) = 8
        /\ \A i \in 1..8 :
              SecretKeys[i] \notin FailedSecretKeys =>
                  SecretKeys[i] \in DOMAIN secrets[space_repo_id(params)]
        /\ err = "SecretInjectionFailed"

\* C3: a prepare() entered with an unresolved (empty) dataset reference makes
\* no provider call and does not return normally.
C3_UnresolvedDatasetMakesNoCall ==
    (pc # "idle" /\ callStart.data_path = Unresolved) =>
        /\ ProviderCalls = <<>>
        /\ pc # "returned"

\* C4: when SpaceRunner.prepare() calls create_repo for a repository name that
\* existed when prepare() was entered, the call fails, the provider's error is
\* what prepare() raises, create_repo is called once only, no secret is written
\* and no file uploaded, and the existing unit's secrets and files are as they
\* were.
C4_ExistingRepoNotOverwritten ==
    (kind = "space" /\ space_repo_id(params) \in callStart.repos
                    /\ CallsOf("create_repo") # <<>>) =>
        /\ Len(CallsOf("create_repo")) = 1
        /\ ~CallsOf("create_repo")[1].ok
        /\ pc = "raised"
        /\ err \in {"HfHubHTTPError409", "ConnectionError"}
        /\ CallsOf("add_space_secret") = <<>>
        /\ CallsOf("upload_file") = <<>>
        /\ secrets = callStart.secrets
        /\ files = callStart.files
        /\ repos = callStart.repos

C4_Witness ==
    /\ kind = "space" /\ space_repo_id(params) \in callStart.repos
    /\ CallsOf("create_repo") # <<>>
    /\ pc = "raised" /\ err = "HfHubHTTPError409"
    /\ DOMAIN secrets[space_repo_id(params)] # {}

\* C5: EndpointsRunner.prepare() does not return normally when the creation
\* request was answered with a non-success status.
C5_NonSuccessNeverReturns ==
    (kind = "endpoint" /\ response # <<>> /\ ~IsSuccess(response[1].status)) =>
        pc # "returned"

\* C6: the runner invokes pause exactly once in every run, as its last step:
\* never before the run's other steps are over, and no run ends without it.
C6_PauseExactlyOnce ==
    /\ pauseCalls <= 1
    /\ rpc # "done" => pauseCalls = 0
    /\ rpc = "done" => pauseCalls = 1
    /\ ~ENABLED RunnerStep => pauseCalls = 1

C6_Witness ==
    rpc = "done" /\ outcome.run = "ValueError" /\ pauseCalls = 1

\* C7: when requirements.txt is present and pip exits non-zero,
\* install_requirements does not return normally and the entry point is not
\* spawned.
C7_InstallFailureIsFatal ==
    (outcome.install # "not called" /\ "requirements.txt" \in workdir /\ exits.pip # 0) =>
        /\ outcome.install # "returned"
        /\ "python" \notin Range(spawned)

\* C8: when script.py exists and exits non-zero, run_command does not return
\* normally.
C8_ScriptFailureIsFatal ==
    (outcome.run # "not called" /\ "script.py" \in workdir /\ exits.script # 0) =>
        outcome.run # "returned"

\* C9: when the working directory has no script.py, run_command raises and
\* spawns no subprocess.
C9_NoEntryPointRaises ==
    (outcome.run # "not called" /\ "script.py" \notin workdir) =>
        /\ outcome.run = "ValueError"
        /\ "python" \notin Range(spawned)
        /\ "python" \notin waited

C9_Witness ==
    outcome.run = "ValueError" /\ "script.py" \notin workdir /\ rpc \in {"pausing", "done"}

\* C10: pause_endpoint returns to its caller in every case.
C10_PauseAlwaysReturns ==
    outcome.pause # "not called" => outcome.pause = "returned"

\* ------------------------------------------------------------------ descriptor parsing on its own
\* longest descriptor handed to the parse, in segments
MaxSegments == 6

DescriptorSegments == {"aws", "gpu"}

RECURSIVE Join(_, _)
\* sep.join(segments)
Join(segs, sep) ==
    IF Len(segs) = 0 THEN <<>>
    ELSE IF Len(segs) = 1 THEN <<segs[1]>>
    ELSE <<segs[1], sep>> \o Join(Tail(segs), sep)

DescriptorInputs ==
    {Join(q, "_") : q \in UNION {[1..n -> DescriptorSegments] : n \in 1..MaxSegments}}
    \cup {endpoints_backends[b] : b \in DOMAIN endpoints_backends}

\* lines 61-66 of _create_endpoint applied to one descriptor
ParseStep ==
    /\ descriptor # <<>>
    /\ parsed = <<>>
    /\ parsed' = IF ParseError(descriptor) # NoError
                 THEN <<<<ParseError(descriptor)>>>>
                 ELSE <<ParseDescriptor(descriptor).vendor,
                        ParseDescriptor(descriptor).region,
                        ParseDescriptor(descriptor).accelerator,
                        ParseDescriptor(descriptor).instance_size,
                        ParseDescriptor(descriptor).instance_type>>
    /\ UNCHANGED <<pvars, rvars, uvars, tvars, descriptor>>

ParseInit ==
    /\ ProvDone
    /\ kind = "endpoint"
    /\ params.project_name = <<"run1">>
    /\ RunnerIdle
    /\ UIIdle
    /\ TrainIdle
    /\ descriptor \in DescriptorInputs
    /\ parsed = <<>>

ParseSpec == ParseInit /\ [][ParseStep]_vars

\* ------------------------------------------------------------------ properties (continued)
\* the path _llm_munge_data tested in the current prepare()
StartTrainPath == callStart.data_path \o <<"/">> \o params.train_split \o <<".csv">>

\* the registry write of the current prepare() failed
StagingFailed ==
    calls # <<>> /\ calls[Len(calls)].op = "push_dataset" /\ ~calls[Len(calls)].ok

\* _llm_munge_data has returned in the current prepare()
StagingDone ==
    \/ pc \in {"create", "secrets", "upload", "returned"}
    \/ pc = "raised" /\ err # "NotImplementedError" /\ ~StagingFailed

ThisRepo == <<params.repo_id[1], "/", "autotrain", "-">> \o params.project_name

\* C11: every endpoint-creation payload sent has minReplica = maxReplica = 1,
\* and so has the payload built for each backend identifier of the catalog.
C11_OneReplica ==
    /\ \A i \in 1..Len(posted) :
          posted[i].scaling.minReplica = 1 /\ posted[i].scaling.maxReplica = 1
    /\ \A b \in DOMAIN endpoints_backends :
          /\ EndpointPayload(b, params).scaling.minReplica = 1
          /\ EndpointPayload(b, params).scaling.maxReplica = 1

C11_Witness ==
    kind = "endpoint" /\ posted # <<>> /\ backend[Len(backend)] = "8xl"

\* C12: a prepare() that succeeded returned the unit's identifier and nothing
\* else: {account}/autotrain-{projectName} for SpaceRunner, the endpoint's
\* name (with or without the account) for EndpointsRunner.
C12_ReturnsIdentifier ==
    /\ (kind = "space" /\ pc = "returned") => ret = ThisRepo
    /\ (kind = "endpoint" /\ pc = "returned" /\ IsSuccess(response[1].status)) =>
          ret \in {params.project_name,
                   <<params.repo_id[1], "/">> \o params.project_name}

\* C13: when {dataPath}/{trainSplit}.csv does not exist, staging makes no
\* registry write and returns the data path it was given.
C13_AbsentFileIsNoOp ==
    (prepares >= 1 /\ StartTrainPath \notin fs) =>
        /\ CallsOf("push_dataset") = <<>>
        /\ datasets = callStart.datasets
        /\ StagingDone =>
              /\ staged[Len(staged)] = callStart.data_path
              /\ params.data_path = callStart.data_path

C13_Witness ==
    /\ prepares >= 1 /\ StartTrainPath \notin fs /\ pc = "create"
    /\ callStart.data_path = <<"/data">>

\* C14: when {dataPath}/{trainSplit}.csv exists, staging writes the dataset
\* and returns {account}/autotrain-data-{projectName}, account being the
\* owner part of repo_id, whatever the data path and the split name are.
C14_StagedReference ==
    (prepares >= 1 /\ StartTrainPath \in fs /\ StagingDone) =>
        LET ref == <<params.repo_id[1], "/", "autotrain", "-", "data", "-">>
                       \o params.project_name
        IN /\ staged[Len(staged)] = ref
           /\ params.data_path = ref
           /\ ref \in datasets
           /\ calls[1] = Call("push_dataset", ref, TRUE)

C14_Witness ==
    /\ prepares >= 1 /\ StartTrainPath \in fs /\ StagingDone
    /\ callStart.data_path = <<"acme", "/", "ds">>
    /\ params.repo_id[1] = "bob"

\* C15: every staging of one runner returns the same reference, and once a
\* staging has returned no later staging fails.
C15_StagingIdempotent ==
    /\ \A i, j \in 1..Len(staged) : staged[i] = staged[j]
    /\ staged # <<>> => ~StagingFailed

C15_Witness ==
    Len(staged) >= 2 /\ staged[1] \in datasets /\ callStart.data_path = staged[1]

\* C16: in both prepare() methods the registry write of staging is the first
\* call; when it fails its error is raised and nothing else is called; a
\* creation request is made only after staging returned; and the DATA_PATH the
\* unit gets is the value staging returned in that call.
C16_StagingBeforeCreation ==
    /\ \A i \in 1..Len(calls) : calls[i].op = "push_dataset" => i = 1
    /\ StagingFailed => pc = "raised" /\ err = "HfHubHTTPError" /\ Len(calls) = 1
    /\ ProviderCalls # <<>> =>
          /\ staged # <<>>
          /\ params.data_path = staged[Len(staged)]
          /\ StartTrainPath \in fs =>
                calls[1] = Call("push_dataset", staged[Len(staged)], TRUE)
          /\ StartTrainPath \notin fs => staged[Len(staged)] = callStart.data_path
    /\ (kind = "space" /\ Call("add_space_secret", <<"DATA_PATH">>, TRUE) \in Range(calls)) =>
          secrets[ThisRepo]["DATA_PATH"] = staged[Len(staged)]
    /\ (kind = "endpoint" /\ response # <<>>) =>
          posted[Len(posted)].env["DATA_PATH"] = staged[Len(staged)]

C16_Witness ==
    /\ kind = "space" /\ pc = "returned"
    /\ calls[1] = Call("push_dataset", secrets[ThisRepo]["DATA_PATH"], TRUE)

KnownSpaceTier(b) ==
    CASE b = <<"spaces", "-", "A10GL">> -> <<"a10g", "-", "large">>
      [] b = <<"spaces", "-", "t4s">> -> <<"t4", "-", "small">>
      [] OTHER -> <<>>

KnownEndpointSize(b) ==
    CASE b[Len(b)] = "s" -> <<"small", "g4dn.xlarge">>
      [] b[Len(b)] = "m" -> <<"medium", "g5.2xlarge">>
      [] b[Len(b)] = "l" -> <<"large", "g4dn.12xlarge">>
      [] b[Len(b)] = "xl" -> <<"xlarge", "p4de">>
      [] b[Len(b)] = "2xl" -> <<"2xlarge", "p4de">>
      [] b[Len(b)] = "4xl" -> <<"4xlarge", "p4de">>
      [] b[Len(b)] = "8xl" -> <<"8xlarge", "p4de">>

BackendIsKnown ==
    IF kind = "space" THEN KnownSpaceTier(backend) # <<>>
    ELSE Len(backend) = 7 /\ backend[3] = "aws"

\* C17: with a backend identifier that is not in the runner's table, prepare()
\* raises the lookup's error, makes no repository or endpoint creation request
\* and substitutes no tier; with one that is, the unit is created with the
\* table's descriptor.
C17_UnknownBackendIsTerminal ==
    /\ ~BackendIsKnown =>
          /\ CallsOf("create_repo") = <<>>
          /\ CallsOf("create_endpoint") = <<>>
          /\ posted = <<>>
          /\ repos = callStart.repos /\ endpoints = callStart.endpoints
          /\ pc \notin {"secrets", "upload", "returned"}
          /\ (pc = "raised" /\ StagingDone) => err \in {"KeyError", "IndexError"}
    /\ (BackendIsKnown /\ kind = "space"
            /\ Call("create_repo", ThisRepo, TRUE) \in Range(calls)) =>
          hardware[ThisRepo] = KnownSpaceTier(backend)
    /\ (BackendIsKnown /\ kind = "endpoint" /\ response # <<>>) =>
          LET sent == posted[Len(posted)]
          IN /\ <<sent.vendor, sent.region, sent.accelerator>>
                    = <<<<"aws">>, <<"us-east-1">>, <<"gpu">>>>
             /\ <<sent.instanceSize, sent.instanceType>>
                    = <<<<KnownEndpointSize(backend)[1]>>, <<KnownEndpointSize(backend)[2]>>>>

C17_Witness ==
    /\ kind = "space" /\ backend = <<"spaces", "-", "h100">>
    /\ pc = "raised" /\ err = "KeyError" /\ prepares = 1

RequiredKeys ==
    {"HF_TOKEN", "AUTOTRAIN_USERNAME", "PROJECT_NAME", "PARAMS", "DATA_PATH",
     "TASK_ID", "MODEL", "OUTPUT_MODEL_REPO", "ENDPOINT_ID"}

\* C19: a unit that has been started (HostedApp: its Dockerfile uploaded;
\* ManagedEndpoint: its creation accepted) was handed every key of the fixed
\* set, the unit's own identity for self-pause included.
C19_FullKeySet ==
    /\ (kind = "space" /\ Call("upload_file", <<"Dockerfile">>, TRUE) \in Range(calls)) =>
          RequiredKeys \subseteq DOMAIN secrets[ThisRepo]
    /\ (kind = "endpoint" /\ response # <<>> /\ IsSuccess(response[1].status)) =>
          RequiredKeys \subseteq DOMAIN posted[Len(posted)].env

\* C20: for the same params, the env block of the creation payload and the
\* secrets SpaceRunner injects hold the same 8 keys with equal values; the
\* endpoint path sends them in its one creation request and makes no
\* add_space_secret call.
C20_SameSecretSet ==
    LET keys8 == RequiredKeys \ {"ENDPOINT_ID"}
    IN /\ (kind = "endpoint" /\ response # <<>>) =>
             /\ \A k \in keys8 :
                   /\ k \in DOMAIN posted[Len(posted)].env
                   /\ posted[Len(posted)].env[k] = SecretValue(k, params)
             /\ CallsOf("add_space_secret") = <<>>
             /\ Len(ProviderCalls) = 1
       /\ (kind = "space" /\ pc = "returned") =>
             /\ DOMAIN secrets[ThisRepo] = keys8
             /\ \A k \in keys8 :
                   /\ k \in DOMAIN EndpointEnv(params)
                   /\ secrets[ThisRepo][k] = EndpointEnv(params)[k]

C20_Witness ==
    /\ kind = "endpoint" /\ response # <<>> /\ IsSuccess(response[1].status)
    /\ posted[Len(posted)].env["DATA_PATH"] \in datasets

\* ------------------------------------------------------------------ properties: retries and frames
\* C21: when prepare() has returned or raised, params.data_path has the value
\* it had when prepare() was entered (the other fields are never assigned).
C21_ParamsReadOnly ==
    pc \in {"returned", "raised"} => params.data_path = callStart.data_path

AllSecretKeys == {SecretKeys[i] : i \in 1..Len(SecretKeys)}

\* the current prepare() is a later attempt on a repository whose earlier
\* attempt wrote all its secrets and did not get the Dockerfile uploaded
RetryAfterUploadFailure ==
    /\ kind = "space" /\ prepares >= 2
    /\ ThisRepo \in callStart.repos
    /\ DOMAIN callStart.secrets[ThisRepo] = AllSecretKeys
    /\ <<ThisRepo, "Dockerfile">> \notin callStart.files

\* C22: a failed upload_file ends the attempt with its error and is the last
\* call of the attempt; in a second attempt after such a failure create_repo
\* does not fail because the repository exists (only the network can fail
\* it), and the artifacts are uploaded to the same paths.
C22_RetryAfterUploadFailureCompletes ==
    /\ \A i \in 1..Len(calls) :
          (calls[i].op = "upload_file" /\ ~calls[i].ok) =>
              i = Len(calls) /\ pc = "raised"
    /\ (RetryAfterUploadFailure /\ CallsOf("create_repo") # <<>>) =>
          \/ CallsOf("create_repo")[1].ok
          \/ err = "ConnectionError"
    /\ (RetryAfterUploadFailure /\ pc = "returned") =>
          {f \in files : f[1] = ThisRepo} =
              {<<ThisRepo, ArtifactPaths[i]>> : i \in 1..Len(ArtifactPaths)}

\* C23: no step of prepare() removes a staged dataset: every dataset that
\* existed when prepare() was entered still exists, every reference staging
\* wrote exists whatever failed afterwards, and a later prepare() of the same
\* job gets the reference of the first without writing it again.
C23_StagedDatasetSurvives ==
    /\ callStart.datasets \subseteq datasets
    /\ \A i \in 1..Len(calls) :
          (calls[i].op = "push_dataset" /\ calls[i].ok) => calls[i].arg \in datasets
    /\ (staged # <<>> /\ staged[1] \in datasets) =>
          \A i \in 1..Len(staged) : staged[i] = staged[1]
    /\ (prepares >= 2 /\ staged # <<>> /\ staged[1] \in callStart.datasets) =>
          /\ CallsOf("push_dataset") = <<>>
          /\ StagingDone => staged[Len(staged)] = staged[1]

C23_Witness ==
    /\ RetryAfterUploadFailure
    /\ Len(staged) = 2 /\ staged[1] \in callStart.datasets
    /\ pc = "raised" /\ err = "HfHubHTTPError409"

\* C24: a prepare() makes at most one creation request (create_repo or the
\* endpoint POST); a call that failed is the last call of that prepare(),
\* which is over; no call is made twice in one prepare(); and over the
\* runner's life there is at most one POST per prepare().
C24_NoAutomaticRetry ==
    /\ Len(CallsOf("create_repo")) + Len(CallsOf("create_endpoint")) <= 1
    /\ \A i \in 1..Len(calls) :
          ~calls[i].ok => i = Len(calls) /\ pc \in {"raised", "returned"}
    /\ \A i, j \in 1..Len(calls) :
          i # j => <<calls[i].op, calls[i].arg>> # <<calls[j].op, calls[j].arg>>
    /\ Len(posted) <= prepares

C24_Witness ==
    /\ kind = "endpoint" /\ pc = "raised" /\ err = "JSONDecodeError"
    /\ Len(CallsOf("create_endpoint")) = 1 /\ ~calls[Len(calls)].ok

\* C27: with params that are not LLMTrainingParams, prepare() of either
\* runner raises NotImplementedError having made no call at all: no staging
\* write, no creation request, nothing changed at the provider, and
\* params.data_path as it was.
C27_NonLLMRaisesBeforeAnyEffect ==
    (params.cls # LLM /\ prepares >= 1) =>
        /\ pc = "raised" /\ err = "NotImplementedError"
        /\ calls = <<>> /\ staged = <<>> /\ posted = <<>>
        /\ datasets = {}
        /\ repos = callStart.repos /\ endpoints = callStart.endpoints
        /\ secrets = callStart.secrets /\ files = callStart.files
        /\ params.data_path = callStart.data_path

C27_Witness ==
    /\ params.cls = OtherParams /\ prepares >= 1 /\ pc = "raised"
    /\ train_data_path(params) \in fs

\* the URL of the creation request extended by the name in its payload and "/pause"
CreatedEndpointPauseUrl ==
    api_url \o <<"/">> \o EndpointPayload(backend, params).name \o <<"/", "pause">>

\* C25: in a ManagedEndpoint unit, the URL pause_endpoint builds from the
\* ENDPOINT_ID of the creation payload's env is the creation URL followed by
\* "/", the payload's name and "/pause"; every call of pause_endpoint sends
\* one request, to that URL, and no request is sent without a call.
C25_PauseTargetsCreatedEndpoint ==
    kind = "endpoint" =>
        /\ PauseUrl(EndpointEnv(params)) = CreatedEndpointPauseUrl
        /\ Len(pauseRequests) = pauseCalls
        /\ \A i \in 1..Len(pauseRequests) : pauseRequests[i] = CreatedEndpointPauseUrl
        /\ outcome.pause # "not called" => pauseCalls = 1

C25_Witness ==
    /\ kind = "endpoint" /\ outcome.pause = "returned"
    /\ pauseRequests = <<CreatedEndpointPauseUrl>>
    /\ username = <<"bob">> /\ params.project_name = <<"run2">>

\* C26: install_requirements spawns pip exactly when requirements.txt is in
\* the project directory: without it the function returns normally having
\* spawned nothing, with it pip is spawned once and the function has waited
\* for its exit when it returns.
C26_InstallSpawnsIffManifest ==
    /\ outcome.install = "not called" => "pip" \notin Range(spawned)
    /\ outcome.install # "not called" =>
          /\ "pip" \in Range(spawned) <=> "requirements.txt" \in workdir
          /\ "requirements.txt" \notin workdir =>
                outcome.install = "returned" /\ "pip" \notin waited
          /\ "requirements.txt" \in workdir =>
                /\ "pip" \in waited
                /\ Len(SelectSeq(spawned, LAMBDA c : c = "pip")) = 1

C26_Witness ==
    /\ outcome.install = "returned" /\ "requirements.txt" \in workdir
    /\ "pip" \in waited /\ exits.pip = 1

\* ------------------------------------------------------------------ configuration UI
\* longest job list the user builds
MaxJobs == 3

\* APP_TASKS["Natural Language Processing"]
Tasks == {"Text Classification", "LLM Finetuning"}

\* None: the value of a textbox that has no value
None == "null"
HubModelValues == {"", "gpt2", None}

\* _update_model_choice: the choices offered for a task, in order
ModelChoices(task) ==
    IF task = "LLM Finetuning" THEN <<"HuggingFace Hub">>
    ELSE <<"AutoTrain", "HuggingFace Hub">>

\* _update_param_choice: the choices offered for a model choice, in order
ParamChoices(mc) ==
    IF mc = "HuggingFace Hub" THEN <<"AutoTrain", "Manual">> ELSE <<"AutoTrain">>

\* _add_job: _training_params, the values of the hyperparameter widgets
TrainingParams(hub) == <<"{", "hub_model", ":", hub, "}">>

RECURSIVE DumpsAcc(_)
DumpsAcc(entries) ==
    IF Len(entries) = 0 THEN <<>>
    ELSE IF Len(entries) = 1 THEN entries[1]
    ELSE entries[1] \o <<",">> \o DumpsAcc(Tail(entries))

\* json.dumps of a list of entries
JsonDumps(entries) == <<"[">> \o DumpsAcc(entries) \o <<"]">>

RECURSIVE LoadsAcc(_, _, _)
LoadsAcc(toks, cur, out) ==
    IF Len(toks) = 0 THEN out
    ELSE IF cur = <<>> /\ Head(toks) = "," THEN LoadsAcc(Tail(toks), <<>>, out)
    ELSE IF Head(toks) = "}" THEN LoadsAcc(Tail(toks), <<>>, Append(out, Append(cur, "}")))
    ELSE LoadsAcc(Tail(toks), Append(cur, Head(toks)), out)

\* json.loads of the text of a list of entries
JsonLoads(text) == LoadsAcc(SubSeq(text, 2, Len(text) - 1), <<>>, <<>>)

\* _update_params that leaves training_params_txt as it is
UpdateParamsTxtKept(txt) == txt

\* _update_params: training_params_txt.update(value="[]")
UpdateParamsTxt(txt) == EmptyJobList

\* _update_params: add_job_button.update(visible=...), from the param choice
\* the event was sent with
UpdateParamsButton(pchoice) == pchoice # "AutoTrain"

\* _add_job: whether the click is turned down (the early return)
AddJobRejects(mc, hub) == mc # "AutoTrain" /\ hub = None

\* _add_job: the text returned for training_params_txt
AddJobTxt(txt, hub) == JsonDumps(Append(JsonLoads(txt), TrainingParams(hub)))

\* task_type.change: _task_type_update and _update_params
TaskTypeChange ==
    \E v \in Tasks \ {task_type} :
        /\ task_type' = v
        /\ model_choice' = ModelChoices(v)[1]
        /\ param_choice' = ParamChoices(ModelChoices(v)[1])[1]
        /\ add_job_button' = UpdateParamsButton(param_choice)
        /\ training_params_txt' = UpdateParamsTxt(training_params_txt)
        /\ accepted' = <<>>
        /\ UNCHANGED <<pvars, rvars, dvars, tvars, hub_model>>

\* model_choice.change: _update_param_choice and _update_params
ModelChoiceChange ==
    \E v \in Range(ModelChoices(task_type)) :
        /\ model_choice' = v
        /\ param_choice' = ParamChoices(v)[1]
        /\ add_job_button' = UpdateParamsButton(param_choice)
        /\ training_params_txt' = UpdateParamsTxt(training_params_txt)
        /\ accepted' = <<>>
        /\ UNCHANGED <<pvars, rvars, dvars, tvars, task_type, hub_model>>

\* param_choice.change: _update_params
ParamChoiceChange ==
    \E v \in Range(ParamChoices(model_choice)) :
        /\ param_choice' = v
        /\ add_job_button' = UpdateParamsButton(v)
        /\ training_params_txt' = UpdateParamsTxt(training_params_txt)
        /\ accepted' = <<>>
        /\ UNCHANGED <<pvars, rvars, dvars, tvars, task_type, model_choice, hub_model>>

\* the user types into the Model textbox (no handler is registered on it)
HubModelEdit ==
    \E v \in HubModelValues \ {hub_model} :
        /\ hub_model' = v
        /\ UNCHANGED <<pvars, rvars, dvars, tvars, task_type, model_choice, param_choice,
                       add_job_button, training_params_txt, accepted>>

\* add_job_button.click: _add_job
AddJobClick ==
    /\ add_job_button
    /\ Len(accepted) < MaxJobs
    /\ IF AddJobRejects(model_choice, hub_model)
       THEN UNCHANGED <<training_params_txt, accepted>>
       ELSE /\ training_params_txt' = AddJobTxt(training_params_txt, hub_model)
            /\ accepted' = Append(accepted, TrainingParams(hub_model))
    /\ UNCHANGED <<pvars, rvars, dvars, tvars, task_type, model_choice, param_choice,
                   hub_model, add_job_button>>

UIInit ==
    /\ ProvDone
    /\ kind = "space"
    /\ params = ParamsOf(LLM, <<"run1">>, <<"acme", "/", "ds">>)
    /\ RunnerIdle
    /\ ParseIdle
    /\ TrainIdle
    /\ UIIdle

UIStep ==
    \/ TaskTypeChange
    \/ ModelChoiceChange
    \/ ParamChoiceChange
    \/ HubModelEdit
    \/ AddJobClick

UISpec == UIInit /\ [][UIStep]_vars

\* C28: the job list stored in training_params_txt is, as text and when
\* parsed, the list of the entries of the accepted Add Job clicks since the
\* last task, model-choice or param-choice change event, in click order (empty
\* when there was none).
C28_JobListIsAcceptedClicks ==
    /\ JsonLoads(training_params_txt) = accepted
    /\ training_params_txt = JsonDumps(accepted)

C28_Witness ==
    /\ Len(accepted) >= 2 /\ accepted[1] # accepted[2]
    /\ Len(JsonLoads(training_params_txt)) = Len(accepted)
    /\ hub_model = None

\* ------------------------------------------------------------------ token-classification trainer
\* train() that pauses the space from every process
PausesSpaceAny(idx) == TRUE

\* train(): if PartialState().process_index == 0: pause_space(config)
PausesSpace(idx) == idx = 0

\* train(): if config.push_to_hub: if PartialState().process_index == 0:
PushesModel(idx, push) == push /\ idx = 0

\* train(), from trainer.train() to its end: the statements process idx executes
Program(idx, push) ==
    <<"train", "save_model", "save_pretrained", "model_card">>
        \o (IF PushesModel(idx, push)
            THEN <<"remove_autotrain_data", "save_training_params", "create_repo",
                   "upload_folder">>
            ELSE <<>>)
        \o (IF PausesSpace(idx) THEN <<"pause_space">> ELSE <<>>)

\* process i enters its next statement
TrainBegin ==
    \E i \in Procs :
        /\ tend[i] = "running" /\ tcur[i] = "none"
        /\ Len(tdone[i]) < Len(Program(i, push_to_hub))
        /\ LET stmt == Program(i, push_to_hub)[Len(tdone[i]) + 1]
           IN /\ tcur' = [tcur EXCEPT ![i] = stmt]
              /\ pauseSpaceCalls' =
                    [pauseSpaceCalls EXCEPT ![i] = @ + (IF stmt = "pause_space" THEN 1 ELSE 0)]
        /\ UNCHANGED <<pvars, rvars, dvars, uvars, push_to_hub, tdone, tend>>

\* the statement process i is in returns or raises
TrainEnd ==
    \E i \in Procs, ok \in BOOLEAN :
        /\ tcur[i] # "none"
        /\ tcur' = [tcur EXCEPT ![i] = "none"]
        /\ IF ok
           THEN /\ tdone' = [tdone EXCEPT ![i] = Append(@, tcur[i])]
                /\ tend' = [tend EXCEPT ![i] =
                              IF Len(tdone[i]) + 1 = Len(Program(i, push_to_hub))
                              THEN "returned" ELSE "running"]
           ELSE /\ tend' = [tend EXCEPT ![i] = "raised"]
                /\ UNCHANGED tdone
        /\ UNCHANGED <<pvars, rvars, dvars, uvars, push_to_hub, pauseSpaceCalls>>

TrainInit ==
    /\ ProvDone
    /\ kind = "space"
    /\ params = ParamsOf(LLM, <<"run1">>, <<"acme", "/", "ds">>)
    /\ RunnerIdle
    /\ ParseIdle
    /\ UIIdle
    /\ push_to_hub \in BOOLEAN
    /\ tdone = [i \in Procs |-> <<>>]
    /\ tcur = [i \in Procs |-> "none"]
    /\ tend = [i \in Procs |-> "running"]
    /\ pauseSpaceCalls = [i \in Procs |-> 0]

TrainStep ==
    \/ TrainBegin
    \/ TrainEnd

TrainSpec == TrainInit /\ [][TrainStep]_vars

\* C29: a process that has invoked pause_space has index 0, has invoked it
\* once, and had by then completed train, save_model, save_pretrained and the
\* model card and, with push_to_hub set, upload_folder; a process that is
\* still before or inside upload_folder has not invoked it.
C29_PauseSpaceAfterUpload ==
    \A i \in Procs :
        /\ pauseSpaceCalls[i] <= 1
        /\ pauseSpaceCalls[i] > 0 =>
              /\ i = 0
              /\ {"train", "save_model", "save_pretrained", "model_card"}
                    \subseteq Range(tdone[i])
              /\ push_to_hub => "upload_folder" \in Range(tdone[i])
        /\ (push_to_hub /\ i = 0 /\ "upload_folder" \notin Range(tdone[i])) =>
              pauseSpaceCalls[i] = 0

C29_Witness ==
    /\ push_to_hub /\ pauseSpaceCalls[0] = 1 /\ tend[0] = "returned"
    /\ \A i \in Procs \ {0} : tend[i] = "returned" /\ pauseSpaceCalls[i] = 0

====
